---------------------------- MODULE Spec2Model ----------------------------
(***************************************************************************)
(* The Vimexx DNS plugin for certbot: the registrar API client             *)
(* (certbot_dns_vimexx/vimexx_client.py) and the authenticator adapter     *)
(* (certbot_dns_vimexx/dns_vimexx.py).                                     *)
(*                                                                         *)
(* The program is synchronous and single-threaded.  A call of              *)
(* add_txt_record or delete_txt_record is modelled as the steps between    *)
(* its HTTP requests: the start of the call (domain decomposition), the    *)
(* token request of authenticate, the record fetch (POST) together with    *)
(* the in-memory splice, and the write-back (PUT).  The answers of the     *)
(* remote API are the inputs of the steps.                                 *)
(*                                                                         *)
(* Text is a sequence of characters (names, contents) or of labels         *)
(* (domains), so that stripping is computed and not assumed.               *)
(***************************************************************************)
EXTENDS Integers, Sequences, FiniteSets, TLC

\* ------------------------------------------------------------------ bounds

\* Largest record set a zone holds in the initial state.
MaxRecords == 2

\* Number of client calls (add_txt_record / delete_txt_record) in a run.
MaxCalls == 2

\* ------------------------------------------------------------ text helpers

\* A dictionary key that is not present, or a value that is not set (None).
NoKey == "<no key>"
None == "<None>"

Dot == "."
Quote == "\""

\* str.rstrip(chars): drop every trailing character that is in chars.
RECURSIVE rstrip(_, _)
rstrip(s, chars) ==
    IF Len(s) > 0 /\ s[Len(s)] \in chars
    THEN rstrip(SubSeq(s, 1, Len(s) - 1), chars)
    ELSE s

\* str.lstrip(chars): drop every leading character that is in chars.
RECURSIVE lstrip(_, _)
lstrip(s, chars) ==
    IF Len(s) > 0 /\ s[1] \in chars
    THEN lstrip(SubSeq(s, 2, Len(s)), chars)
    ELSE s

\* str.strip(chars): both ends.
strip(s, chars) == rstrip(lstrip(s, chars), chars)

\* Python truthiness of the cached token: None and "" are falsy.
Falsy(token) == token = None \/ token = ""

\* ----------------------------------------------------------- DNS records

DEFAULT_TTL == "86400"

NameA == <<"a">>
NameADot == <<"a", Dot>>
NameB == <<"b">>
ContentX == <<"x">>
ContentXQuoted == <<Quote, "x", Quote>>
ContentY == <<"y">>

Rec(n, t, c, l) == [name |-> n, type |-> t, content |-> c, ttl |-> l]

\* The records the registrar may hold at the start: plain and decorated
\* challenge records, neighbours that differ in one field, with and without
\* a reported ttl.
InitialRecords ==
    { Rec(NameA, "TXT", ContentX, NoKey),
      Rec(NameADot, "TXT", ContentXQuoted, "3600"),
      Rec(NameA, "TXT", ContentY, "3600"),
      Rec(NameB, "TXT", ContentX, NoKey),
      Rec(NameA, "A", ContentX, "3600") }

SeqsUpTo(S, n) == UNION { [1..k -> S] : k \in 0..n }

\* The arguments a caller passes: plain and decorated.
RecordNames == {NameA, NameADot}
RecordContents == {ContentX, ContentXQuoted}

\* The records of a zone that holds one challenge record and a neighbour.
ChallengeRecords ==
    { Rec(NameA, "TXT", ContentX, NoKey),
      Rec(NameB, "TXT", ContentX, "3600") }

\* (name, type, content) of a record, the ttl ignored.
Identity(r) == <<r.name, r.type, r.content>>
IdentitySeq(rs) == [i \in 1..Len(rs) |-> Identity(rs[i])]
IdentitySet(rs) == { Identity(rs[i]) : i \in 1..Len(rs) }

\* ---------------------------------------------------------------- domains

\* A domain is its sequence of labels: "*.example.co.uk" is
\* <<"*", "example", "co", "uk">>.
Domains ==
    { <<"*", "example", "co", "uk">>,
      <<"example", "com">>,
      <<"co", "uk">>,
      <<"localhost">> }

\* The public suffix list tldextract consults.
PublicSuffixes == { <<"com">>, <<"uk">>, <<"co", "uk">> }

\* tldextract.extract: the longest public suffix that ends the name, and the
\* label before it; without a known suffix the last label is the domain and
\* the suffix is empty.
tldextract(labels) ==
    LET n == Len(labels)
        cuts == { i \in 1..n : SubSeq(labels, i, n) \in PublicSuffixes }
    IN  IF cuts # {}
        THEN LET i == CHOOSE c \in cuts : \A d \in cuts : c <= d
             IN  [domain |-> IF i > 1 THEN labels[i - 1] ELSE "",
                  suffix |-> SubSeq(labels, i, n)]
        ELSE [domain |-> IF n > 0 THEN labels[n] ELSE "", suffix |-> <<>>]

\* _extract_domain_parts: lstrip('*.') removes the leading wildcard labels;
\* raises PluginError when the domain or the suffix is empty.
extract_domain_parts(domain) ==
    LET extracted == tldextract(lstrip(domain, {"*", ""}))
    IN  IF extracted.domain = "" \/ extracted.suffix = <<>>
        THEN [raised |-> "PluginError", sld |-> "", tld |-> <<>>]
        ELSE [raised |-> None, sld |-> extracted.domain, tld |-> extracted.suffix]

Zone(parts) == <<parts.sld, parts.tld>>
Zones == { Zone(extract_domain_parts(d)) :
             d \in { e \in Domains : extract_domain_parts(e).raised = None } }
NoZone == <<"", <<>>>>


\* ------------------------------------------------------------------- HTTP

\* The statuses the API answers with: success, a redirect that is not
\* followed, a client error, a server error.
Statuses == {200, 302, 401, 500}

Tokens == {"t1", "t2"}

NoRecords == <<>>

\* An answer: transport_ok is FALSE when requests.request itself raised
\* (no answer arrived).  json says whether the body parses as JSON;
\* access_token is the body's token field (NoKey when absent); has_data says
\* whether the body holds data.dns_records, and dns_records is that list.
Response(ok, status, json, token, has_data, records) ==
    [transport_ok |-> ok, status |-> status, json |-> json,
     access_token |-> token, has_data |-> has_data, dns_records |-> records]

TransportFailure == Response(FALSE, 0, FALSE, NoKey, FALSE, NoRecords)

\* No request has been sent yet.
NoResponse == Response(FALSE, 1, FALSE, NoKey, FALSE, NoRecords)

\* The body of an answer is read only when raise_for_status passes.
BodyRead(status) == status < 400

TokenResponses ==
    {TransportFailure}
    \cup { Response(TRUE, s, FALSE, NoKey, FALSE, NoRecords) : s \in Statuses }
    \cup { Response(TRUE, s, TRUE, t, FALSE, NoRecords) :
             s \in { u \in Statuses : BodyRead(u) }, t \in Tokens \cup {NoKey} }

\* The record list endpoint answers with the zone's record set, with a JSON
\* body without data.dns_records, or with a body that is no JSON.
FetchResponses(records) ==
    {TransportFailure}
    \cup { Response(TRUE, s, FALSE, NoKey, FALSE, NoRecords) : s \in Statuses }
    \cup { Response(TRUE, s, TRUE, NoKey, FALSE, NoRecords) :
             s \in { u \in Statuses : BodyRead(u) } }
    \cup { Response(TRUE, s, TRUE, NoKey, TRUE, records) :
             s \in { u \in Statuses : BodyRead(u) } }

PutResponses ==
    {TransportFailure}
    \cup { Response(TRUE, s, FALSE, NoKey, FALSE, NoRecords) : s \in Statuses }
    \cup { Response(TRUE, s, TRUE, NoKey, FALSE, NoRecords) :
             s \in { u \in Statuses : BodyRead(u) } }

\* A registrar that works or fails cleanly: it answers 200 with the body the
\* API documents, or 500.
ServerError == Response(TRUE, 500, FALSE, NoKey, FALSE, NoRecords)

WorkingTokenResponses ==
    { Response(TRUE, 200, TRUE, "t1", FALSE, NoRecords), ServerError }

WorkingFetchResponses(records) ==
    { Response(TRUE, 200, TRUE, NoKey, TRUE, records), ServerError }

WorkingPutResponses ==
    { Response(TRUE, 200, TRUE, NoKey, FALSE, NoRecords), ServerError }

\* The registrar replaces the record set exactly when it answers 2xx.
Applied(resp) == resp.transport_ok /\ resp.status >= 200 /\ resp.status < 300

\* requests' Response.raise_for_status: HTTPError for 4xx and 5xx only.
raise_for_status(status) == status >= 400 /\ status < 600

\* One line of the log of HTTP requests a call has issued.
\* dns_records is the record set the request carries (a PUT), returned the
\* record set read from its answer (a fetch), raised the exception the
\* request ended with (None when it returned).
Request(method, endpoint, zone, records, returned, raised) ==
    [method |-> method, endpoint |-> endpoint, zone |-> zone,
     dns_records |-> records, returned |-> returned, raised |-> raised]

TOKEN_ENDPOINT == "/auth/token"
DNS_ENDPOINT == "/whmcs/domain/dns"

\* authenticate(): the exception it raises (None when it returns) and the
\* value of self.access_token afterwards.
authenticate(access_token, resp) ==
    IF ~resp.transport_ok
    THEN [raised |-> "ConnectionError", access_token |-> access_token]
    ELSE IF resp.status # 200 /\ raise_for_status(resp.status)
    THEN [raised |-> "HTTPError", access_token |-> access_token]
    ELSE IF ~resp.json
    THEN [raised |-> "PluginError", access_token |-> access_token]
    ELSE IF resp.access_token = NoKey
    THEN [raised |-> "PluginError", access_token |-> access_token]
    ELSE [raised |-> None, access_token |-> resp.access_token]

\* api_request() once the token is set: the exception the request raises
\* (None when the parsed body is returned).
api_request(resp) ==
    IF ~resp.transport_ok THEN "ConnectionError"
    ELSE IF raise_for_status(resp.status) THEN "HTTPError"
    ELSE IF ~resp.json THEN "JSONDecodeError"
    ELSE None

\* response.get('data', {}).get('dns_records', [])
current_records(resp) == IF resp.has_data THEN resp.dns_records ELSE NoRecords

\* ----------------------------------------------------- the record splicing

\* A variant that gives every fetched record the default ttl.
AddForcesTtl(current, record_name, record_content) ==
    [i \in 1..Len(current) |-> [current[i] EXCEPT !.ttl = DEFAULT_TTL]]
    \o << Rec(record_name, "TXT", record_content, "60") >>

\* add_txt_record: every fetched record, with the default ttl where it has
\* none, then the new record.
AddUpdatedRecords(current, record_name, record_content) ==
    [i \in 1..Len(current) |->
        IF current[i].ttl = NoKey
        THEN [current[i] EXCEPT !.ttl = DEFAULT_TTL]
        ELSE current[i]]
    \o << Rec(record_name, "TXT", record_content, "60") >>

\* A variant of the test that compares the name as fetched.
MatchesUnstripped(record, record_name, record_content) ==
    /\ record.name = record_name
    /\ record.type = "TXT"
    /\ strip(record.content, {Quote}) = record_content

\* A variant of the test that does not look at the content.
MatchesAnyContent(record, record_name, record_content) ==
    /\ rstrip(record.name, {Dot}) = record_name
    /\ record.type = "TXT"

\* delete_txt_record: the test that skips a fetched record.
Matches(record, record_name, record_content) ==
    /\ rstrip(record.name, {Dot}) = record_name
    /\ record.type = "TXT"
    /\ strip(record.content, {Quote}) = record_content

RECURSIVE Filter(_, _, _)
Filter(current, record_name, record_content) ==
    IF current = <<>> THEN <<>>
    ELSE LET rest == Filter(Tail(current), record_name, record_content)
         IN  IF Matches(Head(current), record_name, record_content)
             THEN rest
             ELSE <<Head(current)>> \o rest

\* A variant that sets the ttl only where it is missing.
DeleteKeepsTtl(current, record_name, record_content) ==
    LET kept == Filter(current, record_name, record_content)
    IN  [i \in 1..Len(kept) |->
            IF kept[i].ttl = NoKey THEN [kept[i] EXCEPT !.ttl = "86400"]
            ELSE kept[i]]

\* delete_txt_record: the records that are kept, each with ttl '86400'.
DeleteUpdatedRecords(current, record_name, record_content) ==
    LET kept == Filter(current, record_name, record_content)
    IN  [i \in 1..Len(kept) |-> [kept[i] EXCEPT !.ttl = "86400"]]


\* ------------------------------------------------------------------ state

VARIABLES
    remote,            \* the registrar: zone -> its ordered record set
    access_token,      \* VimexxClient.access_token (None until set)
    pc,                \* where the client is: "idle", "fetch", "put"
    call,              \* op and arguments of the current or last call
    zone,              \* the call's (sld, tld)
    updated_records,   \* the call's updated_records, between fetch and PUT
    requests,          \* the HTTP requests the current or last call issued
    response,          \* the answer to the last of them
    raised,            \* how the last call ended: None (returned) or the exception
    calls,             \* number of calls started
    last_add,          \* the add_txt_record that returned just before this call
    credentials_file,  \* the INI file: key -> "absent", "empty" or "set"
    credentials,       \* DNSVimexxAuthenticator.credentials
    error_keys,        \* the keys the last adapter error message names
    client_constructed,\* whether a VimexxClient has been constructed
    hook               \* the adapter hook that ran last ("none" before any)

vars == <<remote, access_token, pc, call, zone, updated_records, requests,
          response, raised, calls, last_add, credentials_file, credentials, error_keys,
          client_constructed, hook>>

adapter_vars == <<credentials_file, credentials, error_keys, client_constructed,
                  hook>>

NoCall == [op |-> "none", domain |-> <<>>, record_name |-> <<>>,
           record_content |-> <<>>]

\* For the round trip: the add_txt_record that has just returned, the
\* identities the zone held before it, the record set it held after it,
\* whether the registrar applied its PUT and whether its fetch was answered
\* with the zone's record set.
NoAdd == [valid |-> FALSE, call |-> NoCall, before |-> {}, after |-> <<>>,
          applied |-> FALSE,
          faithful |-> FALSE]

\* The four keys of the credentials file, in the order they are read.
CredentialKeys == <<"client_id", "client_secret", "username", "password">>
KeySet == { CredentialKeys[i] : i \in 1..Len(CredentialKeys) }

\* VimexxClient.__init__ on a registrar whose first zone holds any sequence
\* of at most MaxRecords of the given records; the credentials are loaded and
\* valid.
InitWith(records) ==
    /\ \E rs \in SeqsUpTo(records, MaxRecords) :
         remote = [z \in Zones |->
                     IF z = <<"example", <<"co", "uk">>>> THEN rs ELSE <<>>]
    /\ access_token = None
    /\ pc = "idle"
    /\ call = NoCall
    /\ zone = NoZone
    /\ updated_records = <<>>
    /\ requests = <<>>
    /\ response = NoResponse
    /\ raised = None
    /\ calls = 0
    /\ last_add = NoAdd
    /\ credentials_file = [k \in KeySet |-> "set"]
    /\ credentials = [loaded |-> TRUE, values |-> [k \in KeySet |-> "set"]]
    /\ error_keys = <<>>
    /\ client_constructed = TRUE
    /\ hook = "none"

\* A new client on a zone that holds challenge records.
Init == InitWith(ChallengeRecords)

\* A new client on a zone that holds any of the initial records.
RecordsInit == InitWith(InitialRecords)

\* --------------------------------------------------------- client actions

\* The call ends: it returned (exception = None) or raised.
Finish(exception) ==
    /\ pc' = "idle"
    /\ raised' = exception

\* The first lines of add_txt_record and delete_txt_record:
\* _extract_domain_parts, before any request.
StartCall(op, domain, record_name, record_content) ==
    LET parts == extract_domain_parts(domain)
    IN  /\ calls' = calls + 1
        /\ call' = [op |-> op, domain |-> domain, record_name |-> record_name,
                    record_content |-> record_content]
        /\ requests' = <<>>
        /\ response' = NoResponse
        /\ updated_records' = <<>>
        /\ last_add' = IF op = "delete" /\ call.op = "add" /\ raised = None
                       THEN last_add ELSE NoAdd
        /\ IF parts.raised # None
           THEN /\ zone' = NoZone
                /\ Finish(parts.raised)
           ELSE /\ zone' = Zone(parts)
                /\ pc' = "fetch"
                /\ raised' = None
        /\ UNCHANGED remote

add_txt_record(domain, record_name, record_content) ==
    /\ pc = "idle"
    /\ calls < MaxCalls
    /\ StartCall("add", domain, record_name, record_content)
    /\ UNCHANGED <<access_token, adapter_vars>>

\* A variant that reuses the record set of the call before instead of
\* fetching.
delete_txt_record_cached(domain, record_name, record_content) ==
    /\ pc = "idle"
    /\ calls < MaxCalls
    /\ calls' = calls + 1
    /\ call' = [op |-> "delete", domain |-> domain, record_name |-> record_name,
                record_content |-> record_content]
    /\ requests' = <<>>
    /\ response' = NoResponse
    /\ last_add' = NoAdd
    /\ zone' = Zone(extract_domain_parts(domain))
    /\ pc' = IF extract_domain_parts(domain).raised = None THEN "put" ELSE "idle"
    /\ raised' = extract_domain_parts(domain).raised
    /\ UNCHANGED <<remote, updated_records, access_token, adapter_vars>>

delete_txt_record(domain, record_name, record_content) ==
    /\ pc = "idle"
    /\ calls < MaxCalls
    /\ StartCall("delete", domain, record_name, record_content)
    /\ UNCHANGED <<access_token, adapter_vars>>

\* The except clauses around the PUT of add_txt_record turn every exception
\* into PluginError; delete_txt_record has none.
WriteBackError(op, exception) ==
    IF exception # None /\ op = "add" THEN "PluginError" ELSE exception

\* A variant that authenticates before a request whether or not a token is
\* held.
AuthenticateAlways(resp) ==
    /\ pc \in {"fetch", "put"}
    /\ LET a == authenticate(access_token, resp)
       IN  /\ access_token' = a.access_token
           /\ requests' = Append(requests,
                  Request("POST", TOKEN_ENDPOINT, NoZone, NoRecords, NoRecords,
                          a.raised))
           /\ response' = resp
           /\ IF a.raised # None
              THEN Finish(a.raised)
              ELSE UNCHANGED <<pc, raised>>
    /\ UNCHANGED <<remote, call, zone, updated_records, calls, last_add,
                   adapter_vars>>

\* api_request finds no token and calls authenticate().
Authenticate(resp) ==
    /\ pc \in {"fetch", "put"}
    /\ Falsy(access_token)
    /\ LET a == authenticate(access_token, resp)
       IN  /\ access_token' = a.access_token
           /\ requests' = Append(requests,
                  Request("POST", TOKEN_ENDPOINT, NoZone, NoRecords, NoRecords,
                          a.raised))
           /\ response' = resp
           /\ IF a.raised # None
              THEN Finish(IF pc = "put" THEN WriteBackError(call.op, a.raised)
                          ELSE a.raised)
              ELSE UNCHANGED <<pc, raised>>
    /\ UNCHANGED <<remote, call, zone, updated_records, calls, last_add,
                   adapter_vars>>

\* A variant that goes on to the PUT when the fetch raised, as if nothing
\* had been fetched.
FetchRecordsSwallow(resp) ==
    /\ pc = "fetch"
    /\ ~Falsy(access_token)
    /\ LET exception == api_request(resp)
           current == IF exception = None THEN current_records(resp) ELSE NoRecords
       IN  /\ requests' = Append(requests,
                  Request("POST", DNS_ENDPOINT, zone, NoRecords, current, exception))
           /\ response' = resp
           /\ updated_records' =
                 IF call.op = "add"
                 THEN AddUpdatedRecords(current, call.record_name, call.record_content)
                 ELSE DeleteUpdatedRecords(current, call.record_name,
                                           call.record_content)
           /\ pc' = "put"
           /\ UNCHANGED raised
    /\ UNCHANGED <<remote, access_token, call, zone, calls, last_add,
                   adapter_vars>>

\* The fetch: api_request('/whmcs/domain/dns', 'POST', {sld, tld}), and the
\* splice of the answer into updated_records.
FetchRecords(resp) ==
    /\ pc = "fetch"
    /\ ~Falsy(access_token)
    /\ LET exception == api_request(resp)
       IN  /\ requests' = Append(requests,
                  Request("POST", DNS_ENDPOINT, zone, NoRecords,
                          IF exception = None THEN current_records(resp)
                          ELSE NoRecords,
                          exception))
           /\ response' = resp
           /\ IF exception # None
              THEN /\ Finish(exception)
                   /\ UNCHANGED updated_records
              ELSE /\ updated_records' =
                        IF call.op = "add"
                        THEN AddUpdatedRecords(current_records(resp),
                                 call.record_name, call.record_content)
                        ELSE DeleteUpdatedRecords(current_records(resp),
                                 call.record_name, call.record_content)
                   /\ pc' = "put"
                   /\ UNCHANGED raised
    /\ UNCHANGED <<remote, access_token, call, zone, calls, last_add,
                   adapter_vars>>

\* The write-back: api_request('/whmcs/domain/dns', 'PUT', {sld, tld,
\* dns_records}), once; then the call returns or raises.
PutRecords(resp) ==
    /\ pc = "put"
    /\ ~Falsy(access_token)
    /\ LET exception == WriteBackError(call.op, api_request(resp))
       IN  /\ requests' = Append(requests,
                  Request("PUT", DNS_ENDPOINT, zone, updated_records, NoRecords,
                          exception))
           /\ response' = resp
           /\ remote' = IF Applied(resp)
                        THEN [remote EXCEPT ![zone] = updated_records]
                        ELSE remote
           /\ Finish(exception)
           /\ last_add' =
                IF call.op = "add"
                THEN IF exception = None
                     THEN [valid |-> TRUE, call |-> call,
                           before |-> IdentitySet(remote[zone]),
                           after |-> IF Applied(resp) THEN updated_records
                                     ELSE remote[zone],
                           applied |-> Applied(resp),
                           faithful |-> requests[Len(requests)].returned = remote[zone]]
                     ELSE NoAdd
                ELSE last_add
    /\ UNCHANGED <<access_token, call, zone, updated_records, calls, adapter_vars>>

\* What the registrar holds for a zone (nothing for a zone it does not know).
RecordsOf(z) == IF z \in DOMAIN remote THEN remote[z] ELSE <<>>

\* The client against a registrar that answers in every way the API can,
\* called with the plain challenge record.
Next ==
    \/ \E d \in Domains : add_txt_record(d, NameA, ContentX)
    \/ \E d \in Domains : delete_txt_record(d, NameA, ContentX)
    \/ \E resp \in TokenResponses : Authenticate(resp)
    \/ \E resp \in FetchResponses(RecordsOf(zone)) : FetchRecords(resp)
    \/ \E resp \in PutResponses : PutRecords(resp)

Spec == Init /\ [][Next]_vars

\* The client against a working registrar, called with plain and decorated
\* arguments on zones that hold any of the initial records.
RecordsNext ==
    \/ \E d \in Domains, n \in RecordNames, c \in RecordContents :
         add_txt_record(d, n, c)
    \/ \E d \in Domains, n \in RecordNames, c \in RecordContents :
         delete_txt_record(d, n, c)
    \/ \E resp \in WorkingTokenResponses : Authenticate(resp)
    \/ \E resp \in WorkingFetchResponses(RecordsOf(zone)) : FetchRecords(resp)
    \/ \E resp \in WorkingPutResponses : PutRecords(resp)

SpecRecords == RecordsInit /\ [][RecordsNext]_vars


\* -------------------------------------------------------------- the adapter

FileStates == {"absent", "empty", "set"}

NoCredentials == [loaded |-> FALSE, values |-> [k \in KeySet |-> "absent"]]

\* _setup_credentials: VimexxCredentials.__init__ reads the four keys in
\* order; config['default'][key] raises KeyError at the first absent one.
setup_credentials(file) ==
    LET absent == { i \in 1..Len(CredentialKeys) : file[CredentialKeys[i]] = "absent" }
    IN  IF absent # {}
        THEN [raised |-> "KeyError",
              keys |-> << CredentialKeys[CHOOSE i \in absent : \A j \in absent : i <= j] >>,
              credentials |-> NoCredentials]
        ELSE [raised |-> None, keys |-> <<>>,
              credentials |-> [loaded |-> TRUE, values |-> file]]

IsEmpty(key) == credentials.values[key] = "empty"

\* _get_vimexx_client: PluginError without credentials, PluginError naming
\* every credential whose value is empty, else a new client.
get_vimexx_client ==
    IF ~credentials.loaded
    THEN [raised |-> "PluginError", keys |-> <<>>]
    ELSE LET missing == SelectSeq(CredentialKeys, IsEmpty)
         IN  IF missing # <<>>
             THEN [raised |-> "PluginError", keys |-> missing]
             ELSE [raised |-> None, keys |-> <<>>]

\* The hook _setup_credentials, the first step of a challenge.
SetupCredentials ==
    /\ pc = "idle"
    /\ hook = "none"
    /\ LET r == setup_credentials(credentials_file)
       IN  /\ raised' = r.raised
           /\ error_keys' = r.keys
           /\ credentials' = IF r.raised = None THEN r.credentials ELSE credentials
    /\ hook' = "setup"
    /\ UNCHANGED <<remote, access_token, pc, call, zone, updated_records,
                   requests, response, calls, last_add, credentials_file,
                   client_constructed>>

\* _perform and _cleanup: a new client from _get_vimexx_client, then the
\* client call on it.
Hook(name, op, domain, validation_name, validation) ==
    /\ pc = "idle"
    /\ calls < MaxCalls
    /\ hook' = name
    /\ LET c == get_vimexx_client
       IN  /\ error_keys' = c.keys
           /\ IF c.raised # None
              THEN /\ calls' = calls + 1
                   /\ call' = [op |-> op, domain |-> domain,
                               record_name |-> validation_name,
                               record_content |-> validation]
                   /\ requests' = <<>>
                   /\ response' = NoResponse
                   /\ updated_records' = <<>>
                   /\ last_add' = NoAdd
                   /\ zone' = NoZone
                   /\ Finish(c.raised)
                   /\ UNCHANGED <<remote, access_token, client_constructed>>
              ELSE /\ client_constructed' = TRUE
                   /\ access_token' = None
                   /\ StartCall(op, domain, validation_name, validation)
    /\ UNCHANGED <<credentials_file, credentials>>

\* certbot runs _perform only after _setup_credentials returned.
Perform(domain, validation_name, validation) ==
    /\ hook \in {"setup", "perform"}
    /\ credentials.loaded
    /\ Hook("perform", "add", domain, validation_name, validation)

\* certbot runs _cleanup after the challenge, also when it failed.
Cleanup(domain, validation_name, validation) ==
    /\ hook # "none"
    /\ Hook("cleanup", "delete", domain, validation_name, validation)

\* The plugin before any hook ran, with any credentials file.
AdapterInit ==
    /\ remote = [z \in Zones |-> <<>>]
    /\ access_token = None
    /\ pc = "idle"
    /\ call = NoCall
    /\ zone = NoZone
    /\ updated_records = <<>>
    /\ requests = <<>>
    /\ response = NoResponse
    /\ raised = None
    /\ calls = 0
    /\ last_add = NoAdd
    /\ credentials_file \in [KeySet -> FileStates]
    /\ credentials = NoCredentials
    /\ error_keys = <<>>
    /\ client_constructed = FALSE
    /\ hook = "none"

AdapterNext ==
    \/ SetupCredentials
    \/ \E d \in Domains : Perform(d, NameA, ContentX)
    \/ \E d \in Domains : Cleanup(d, NameA, ContentX)
    \/ \E resp \in TokenResponses : Authenticate(resp)
    \/ \E resp \in FetchResponses(RecordsOf(zone)) : FetchRecords(resp)
    \/ \E resp \in PutResponses : PutRecords(resp)

SpecAdapter == AdapterInit /\ [][AdapterNext]_vars


\* ------------------------------------------------- reading the request log

IsToken(r) == r.endpoint = TOKEN_ENDPOINT
IsFetch(r) == r.endpoint = DNS_ENDPOINT /\ r.method = "POST"
IsPut(r) == r.endpoint = DNS_ENDPOINT /\ r.method = "PUT"

TokenRequests == { i \in DOMAIN requests : IsToken(requests[i]) }
Fetches == { i \in DOMAIN requests : IsFetch(requests[i]) }
Puts == { i \in DOMAIN requests : IsPut(requests[i]) }

\* The call is over.
Ended == pc = "idle" /\ call.op # "none"

\* The record set the call's fetch returned (defined when it returned).
Fetched == requests[CHOOSE i \in Fetches : TRUE].returned
FetchReturned == \E i \in Fetches : requests[i].raised = None

\* The record set the call's PUT carried (defined when a PUT was sent).
Written == requests[CHOOSE i \in Puts : TRUE].dns_records

\* The match of delete_txt_record, in the words of its description.
IsRequested(r) ==
    /\ r.type = "TXT"
    /\ rstrip(r.name, {Dot}) = call.record_name
    /\ strip(r.content, {Quote}) = call.record_content
IsNotRequested(r) == ~IsRequested(r)

\* ------------------------------------------------------------------ claims

\* C2: the record set delete_txt_record writes back leaves out every fetched
\* record that is TXT, whose name without trailing dots is recordName and
\* whose content without surrounding quotes is recordContent, and keeps, in
\* order, every fetched record that fails one of the three conditions.
C2_DeleteOmitsExactlyTheMatches ==
    (call.op = "delete" /\ Puts # {}) =>
        /\ \A i \in DOMAIN Written : ~IsRequested(Written[i])
        /\ IdentitySeq(Written) = IdentitySeq(SelectSeq(Fetched, IsNotRequested))

\* C2 witness: a PUT of delete_txt_record after a fetch that held a decorated
\* match (trailing dot, quotes) and a TXT record of the same name with
\* another content, which is kept.
C2_Witness ==
    /\ call.op = "delete" /\ Puts # {}
    /\ call.record_name = NameA /\ call.record_content = ContentX
    /\ \E i \in DOMAIN Fetched : Identity(Fetched[i]) = <<NameADot, "TXT", ContentXQuoted>>
    /\ \E i \in DOMAIN Fetched : Identity(Fetched[i]) = <<NameA, "TXT", ContentY>>
    /\ IdentitySeq(Written) = << <<NameA, "TXT", ContentY>> >>

\* C3: when no fetched record matches, delete_txt_record goes on to the PUT
\* without raising, and the record set it writes is the fetched one, in
\* order, with every ttl "86400"; the call raises only if the PUT does.
C3_DeleteWithoutMatch ==
    (call.op = "delete" /\ FetchReturned
        /\ \A i \in DOMAIN Fetched : ~IsRequested(Fetched[i]))
    => /\ updated_records = [i \in DOMAIN Fetched |-> [Fetched[i] EXCEPT !.ttl = "86400"]]
       /\ pc = "put" \/ (pc = "idle" /\ Puts # {})
       /\ Puts # {} => Written = updated_records
       /\ (pc = "idle" /\ raised # None) =>
              requests[CHOOSE i \in Puts : TRUE].raised = raised

\* C3 witness: delete_txt_record returned after a fetch of two records, none
\* matching, one of them with a ttl of its own that the PUT replaced.
C3_Witness ==
    /\ Ended /\ call.op = "delete" /\ raised = None /\ Puts # {}
    /\ Len(Fetched) = 2
    /\ \A i \in DOMAIN Fetched : ~IsRequested(Fetched[i])
    /\ \E i \in DOMAIN Fetched : Fetched[i].ttl = "3600" /\ Written[i].ttl = "86400"

\* C4: for n fetched records add_txt_record writes n+1: the fetched ones in
\* order, unchanged but for ttl "86400" where the ttl was missing, then
\* {recordName, "TXT", recordContent, ttl "60"}.
C4_AddWritesFetchedPlusOne ==
    (call.op = "add" /\ Puts # {}) =>
        /\ Len(Written) = Len(Fetched) + 1
        /\ \A i \in DOMAIN Fetched :
              Written[i] = IF Fetched[i].ttl = NoKey
                           THEN [Fetched[i] EXCEPT !.ttl = "86400"]
                           ELSE Fetched[i]
        /\ Written[Len(Written)] =
              [name |-> call.record_name, type |-> "TXT",
               content |-> call.record_content, ttl |-> "60"]

\* C4 witness: a PUT of add_txt_record after a fetch of two records, one
\* without ttl and one with ttl "3600".
C4_Witness ==
    /\ call.op = "add" /\ Puts # {}
    /\ Len(Fetched) = 2 /\ Len(Written) = 3
    /\ \E i \in DOMAIN Fetched : Fetched[i].ttl = NoKey
    /\ \E i \in DOMAIN Fetched : Fetched[i].ttl = "3600"


\* The call that has just returned is the delete_txt_record that follows a
\* returned add_txt_record with the same three arguments.
RoundTripDone ==
    /\ Ended /\ call.op = "delete" /\ raised = None
    /\ last_add.valid
    /\ last_add.call.domain = call.domain
    /\ last_add.call.record_name = call.record_name
    /\ last_add.call.record_content = call.record_content

\* Both calls succeeded at the registrar too: each fetch was answered with
\* the zone's record set, each PUT with a 2xx status.
RoundTripAnswered ==
    /\ last_add.applied /\ last_add.faithful
    /\ Applied(response)
    /\ Fetched = last_add.after

\* C1 as claimed: for every initial record set and every (domain,
\* recordName, recordContent), a successful add_txt_record followed by a
\* successful delete_txt_record, same arguments, leaves the zone's set of
\* (name, type, content) as it was before the add.
C1_RoundTripAsClaimed ==
    (RoundTripDone /\ RoundTripAnswered)
        => IdentitySet(RecordsOf(zone)) = last_add.before

\* Nothing the zone held before the add is a record delete_txt_record
\* matches, and the arguments carry no decoration that the match strips.
RoundTripUndecorated ==
    /\ \A id \in last_add.before :
          ~IsRequested([name |-> id[1], type |-> id[2], content |-> id[3]])
    /\ rstrip(call.record_name, {Dot}) = call.record_name
    /\ strip(call.record_content, {Quote}) = call.record_content

\* C1 amended: a successful add_txt_record followed by a successful
\* delete_txt_record, same arguments, restores the zone's set of (name, type,
\* content) when the zone held no matching record before the add, recordName
\* has no trailing dot and recordContent no surrounding quote.
C1_RoundTripAmended ==
    (RoundTripDone /\ RoundTripAnswered /\ RoundTripUndecorated)
        => IdentitySet(RecordsOf(zone)) = last_add.before

\* C1 witness: such a round trip on a zone that held two other records.
C1_Witness ==
    /\ RoundTripDone /\ RoundTripAnswered /\ RoundTripUndecorated
    /\ Cardinality(last_add.before) = 2
    /\ Len(Fetched) = 3 /\ Len(Written) = 2

\* C5 as claimed: whenever the token endpoint answers with a status that is
\* not a success (not 2xx), authenticate() raises and access_token stays
\* unset.
C5_FailedAuthenticateRaises ==
    (requests # <<>> /\ IsToken(requests[Len(requests)])
        /\ response.transport_ok
        /\ ~(response.status >= 200 /\ response.status < 300))
    => /\ requests[Len(requests)].raised # None
       /\ Ended /\ raised # None
       /\ Falsy(access_token)

\* C7 as claimed: in add_txt_record and in delete_txt_record a PUT that
\* fails (no answer, or a 4xx/5xx answer) ends the call with PluginError,
\* after one PUT.
C7_WriteBackFailureIsWrapped ==
    (requests # <<>> /\ IsPut(requests[Len(requests)])
        /\ (~response.transport_ok \/ raise_for_status(response.status)))
    => /\ Ended /\ raised = "PluginError"
       /\ Cardinality(Puts) = 1

\* C8: the token endpoint is asked only while the client holds no token; an
\* authenticate that returns leaves a token; a token, once held, is neither
\* dropped nor replaced, whatever the later requests answer.
C8_Step ==
    /\ (Len(requests') > Len(requests) /\ IsToken(requests'[Len(requests')]))
          => /\ Falsy(access_token)
             /\ requests'[Len(requests')].raised = None => ~Falsy(access_token')
    /\ ~Falsy(access_token) => access_token' = access_token
C9_WriteAfterFreshRead ==
    \A i \in Puts :
        /\ \E j \in Fetches :
              /\ j < i
              /\ requests[j].raised = None
              /\ requests[j].zone = requests[i].zone
              /\ \A r \in DOMAIN requests[i].dns_records :
                    Identity(requests[i].dns_records[r]) \in
                        IdentitySet(requests[j].returned)
                        \cup { <<call.record_name, "TXT", call.record_content>> }
        /\ requests[i].zone = Zone(extract_domain_parts(call.domain))

\* C9 witness: the second call of a client writes back a record set read in
\* that call.
C9_Witness ==
    /\ calls = 2 /\ Puts # {} /\ Len(Written) >= 2
    /\ zone = <<"example", <<"com">>>>

\* An early step of the call failed: the decomposition, the token request or
\* the fetch raised.
FailedEarly ==
    \/ call.op # "none" /\ extract_domain_parts(call.domain).raised # None
    \/ \E i \in TokenRequests \cup Fetches : requests[i].raised # None

\* C10: when the decomposition, authenticate or the fetch raises, the call
\* raises and sends no PUT; a domain that cannot be decomposed fails before
\* any request; the registrar's records change only with a PUT.
C10_Step ==
    /\ FailedEarly' => (Ended' /\ raised' # None /\ Puts' = {})
    /\ (call'.op # "none" /\ extract_domain_parts(call'.domain).raised # None)
          => (requests' = <<>> /\ raised' = "PluginError")
    /\ remote' # remote =>
          (Len(requests') = Len(requests) + 1 /\ IsPut(requests'[Len(requests')]))
C10_EarlyFailureWritesNothing == [][C10_Step]_vars

\* C10 witness: a call whose fetch was refused after authenticate returned.
C10_Witness ==
    /\ Ended /\ raised = "HTTPError"
    /\ Len(requests) = 2 /\ IsToken(requests[1]) /\ IsFetch(requests[2])
    /\ requests[2].raised = "HTTPError"

\* The credential keys that are absent from the file or have an empty value.
MissingKeys == { k \in KeySet : credentials_file[k] \in {"absent", "empty"} }

\* C6 as claimed: with a credential key absent or empty, the hooks fail
\* before a client is constructed or a request is sent, the failure is a
\* PluginError, and its message names every missing key.
C6_MissingCredentialsNamed ==
    (MissingKeys # {} /\ hook # "none") =>
        /\ ~client_constructed /\ requests = <<>>
        /\ hook \in {"perform", "cleanup"} => raised # None
        /\ raised # None =>
              /\ raised = "PluginError"
              /\ { error_keys[i] : i \in DOMAIN error_keys } = MissingKeys

=============================================================================
